---- MODULE Spec2Model ----
(***************************************************************************)
(* The date-indexed event store (CalendarManager) and its exponential      *)
(* scheduler (add_multiple), as a state machine.                           *)
(*                                                                         *)
(* A Python str that holds a date is a sequence of one-character strings,  *)
(* so that strptime and isoformat are modelled by what they do to the      *)
(* characters.  A datetime.date is its proleptic Gregorian ordinal         *)
(* (date.toordinal()), the representation date arithmetic works on.        *)
(* An event text is an opaque TLA+ string.                                 *)
(*                                                                         *)
(* Intermediate values are passed on as operator parameters (the Python    *)
(* locals of the same names) rather than bound by LET.                     *)
(***************************************************************************)
EXTENDS Integers, Sequences, FiniteSets, TLC

VARIABLES
    calendar_db,      \* self.calendar_db: the OrderedDict, a sequence of <<date, events>>
    disk,             \* the file self.db_file
    today,            \* datetime.now().date()
    pc,               \* "idle", or "loop" while add_multiple's while loop runs
    event,            \* add_multiple: its event argument
    exponent_base,    \* add_multiple: its exponent_base argument, in halves (2 is 1.0)
    start_date_obj,   \* add_multiple: start_date_obj
    end_date_obj,     \* add_multiple: end_date_obj
    current_date_obj, \* add_multiple: current_date_obj
    gap,              \* add_multiple: gap
    output,           \* add_multiple: output, the list of add_event's results
    calls,            \* history: the add_event calls of the last add_multiple
    fs,               \* the file system: "ok", "readonly" or "full"
    ret,              \* the last call: its arguments and how it ended
    nops,             \* history: the number of calls started
    prev,             \* history: the add_multiple call before the running one
    bot               \* topic_bot: its globals, its tasks, the reminders it has sent

vars == <<calendar_db, disk, today, pc, event, exponent_base, start_date_obj,
          end_date_obj, current_date_obj, gap, output, calls, fs, ret, nops,
          prev, bot>>

\* add_multiple's locals, and what is recorded for the time it runs.
locals == <<event, exponent_base, start_date_obj, end_date_obj,
            current_date_obj, gap, output, prev>>

-----------------------------------------------------------------------------
(* Bounds of the model. *)

\* Calls of add_event, show_events, cut_events_before_date and add_multiple in a run.
MaxOps == 2
\* Days the clock advances in a run.
MaxClockDays == 1

-----------------------------------------------------------------------------
(* datetime.date: ordinals, and the calendar arithmetic behind them. *)

DigitChars == <<"0", "1", "2", "3", "4", "5", "6", "7", "8", "9">>

IsDigit(c) == \E i \in 1..10 : DigitChars[i] = c

DigitVal(c) == (CHOOSE i \in 1..10 : DigitChars[i] = c) - 1

_is_leap(y) == y % 4 = 0 /\ (y % 100 # 0 \/ y % 400 = 0)

_days_before_year(y) ==
    (y - 1) * 365 + ((y - 1) \div 4) - ((y - 1) \div 100) + ((y - 1) \div 400)

_DAYS_IN_MONTH == <<31, 28, 31, 30, 31, 30, 31, 31, 30, 31, 30, 31>>

_DAYS_BEFORE_MONTH == <<0, 31, 59, 90, 120, 151, 181, 212, 243, 273, 304, 334>>

_days_in_month(y, m) ==
    IF m = 2 /\ _is_leap(y) THEN 29 ELSE _DAYS_IN_MONTH[m]

_days_before_month(y, m) ==
    _DAYS_BEFORE_MONTH[m] + (IF m > 2 /\ _is_leap(y) THEN 1 ELSE 0)

\* date(y, m, d).toordinal()
_ymd2ord(y, m, d) == _days_before_year(y) + _days_before_month(y, m) + d

\* date.max.toordinal(): 9999-12-31
MaxOrdinal == _ymd2ord(9999, 12, 31)

(* date.fromordinal(ord) as <<year, month, day>>: the 400-year, 100-year,  *)
(* 4-year and 1-year cycles before the day, then the month by estimate.    *)
YmdDay(year, leapyear, month, preceding, n) ==
    IF preceding > n
    THEN <<year, month - 1,
           n - (preceding - (_DAYS_IN_MONTH[month - 1]
                               + (IF month - 1 = 2 /\ leapyear THEN 1 ELSE 0))) + 1>>
    ELSE <<year, month, n - preceding + 1>>

YmdMonth(year, leapyear, month, n) ==
    YmdDay(year, leapyear, month,
           _DAYS_BEFORE_MONTH[month] + (IF month > 2 /\ leapyear THEN 1 ELSE 0), n)

Ymd1(year, n100, n4, n1, n) ==
    IF n1 = 4 \/ n100 = 4
    THEN <<year - 1, 12, 31>>
    ELSE YmdMonth(year, n1 = 3 /\ (n4 # 24 \/ n100 = 3), (n + 50) \div 32, n)

Ymd4(n400, n100, n4, n) ==
    Ymd1(n400 * 400 + 1 + n100 * 100 + n4 * 4 + (n \div 365),
         n100, n4, n \div 365, n % 365)

Ymd100(n400, n100, n) == Ymd4(n400, n100, n \div 1461, n % 1461)

Ymd400(n400, n) == Ymd100(n400, n \div 36524, n % 36524)

_ord2ymd(ord) == Ymd400((ord - 1) \div 146097, (ord - 1) % 146097)

Digit(n) == DigitChars[(n % 10) + 1]

\* "%04d-%02d-%02d" % (year, day, month): the day and the month change places.
FormattedDayFirst(ymd) ==
    << Digit(ymd[1] \div 1000), Digit(ymd[1] \div 100), Digit(ymd[1] \div 10),
       Digit(ymd[1]), "-", Digit(ymd[3] \div 10), Digit(ymd[3]),
       "-", Digit(ymd[2] \div 10), Digit(ymd[2]) >>

\* "%04d-%02d-%02d" % (year, month, day)
Formatted(ymd) ==
    << Digit(ymd[1] \div 1000), Digit(ymd[1] \div 100), Digit(ymd[1] \div 10),
       Digit(ymd[1]), "-", Digit(ymd[2] \div 10), Digit(ymd[2]),
       "-", Digit(ymd[3] \div 10), Digit(ymd[3]) >>

\* date.isoformat()
isoformat(ord) == Formatted(_ord2ymd(ord))

(***************************************************************************)
(* datetime.strptime(s, '%Y-%m-%d').date().  The format compiles to the    *)
(* regular expression                                                      *)
(*   (\d\d\d\d)-(1[0-2]|0[1-9]|[1-9])-(3[0-1]|[1-2]\d|0[1-9]|[1-9]| [1-9]) *)
(* matched at the start of s; text left after the match, or a day the      *)
(* month does not have, or year 0, raises ValueError.  The result is       *)
(* [ok |-> FALSE] for ValueError, else [ok |-> TRUE, date |-> ordinal].    *)
(***************************************************************************)
ValueError == [ok |-> FALSE, date |-> 0]

In(s, i, set) == i <= Len(s) /\ s[i] \in set

NonZeroDigit(s, i) == i <= Len(s) /\ IsDigit(s[i]) /\ s[i] # "0"

\* The day directive at position p: <<day, next position>>, <<0, 0>> when none matches.
MatchDay(s, p) ==
    CASE In(s, p, {"3"}) /\ In(s, p + 1, {"0", "1"})
            -> <<30 + DigitVal(s[p + 1]), p + 2>>
      [] In(s, p, {"1", "2"}) /\ p + 1 <= Len(s) /\ IsDigit(s[p + 1])
            -> <<10 * DigitVal(s[p]) + DigitVal(s[p + 1]), p + 2>>
      [] In(s, p, {"0"}) /\ NonZeroDigit(s, p + 1)
            -> <<DigitVal(s[p + 1]), p + 2>>
      [] NonZeroDigit(s, p)
            -> <<DigitVal(s[p]), p + 1>>
      [] In(s, p, {" "}) /\ NonZeroDigit(s, p + 1)
            -> <<DigitVal(s[p + 1]), p + 2>>
      [] OTHER -> <<0, 0>>

\* "-" and the day directive after a month that ends before position p.
MatchRest(s, p) ==
    IF In(s, p, {"-"}) THEN MatchDay(s, p + 1) ELSE <<0, 0>>

\* The month directive at position 6, its alternatives in the expression's
\* order, given what follows a two-digit and a one-digit month:
\* <<month, day, end position>>, <<0, 0, 0>> when none matches.
MatchMonth(s, two, one) ==
    CASE In(s, 6, {"1"}) /\ In(s, 7, {"0", "1", "2"}) /\ two[2] # 0
            -> <<10 + DigitVal(s[7]), two[1], two[2]>>
      [] In(s, 6, {"0"}) /\ NonZeroDigit(s, 7) /\ two[2] # 0
            -> <<DigitVal(s[7]), two[1], two[2]>>
      [] NonZeroDigit(s, 6) /\ one[2] # 0
            -> <<DigitVal(s[6]), one[1], one[2]>>
      [] OTHER -> <<0, 0, 0>>

\* The date of a match, or what _strptime raises.
\* The conversion without the check of the day against the month.
ConvertedAnyDay(s, year, md) ==
    IF md[3] = 0 \/ md[3] # Len(s) + 1 \/ year < 1
    THEN ValueError
    ELSE [ok |-> TRUE, date |-> _ymd2ord(year, md[1], md[2])]

Converted(s, year, md) ==
    IF \/ md[3] = 0                               \* does not match format
       \/ md[3] # Len(s) + 1                      \* unconverted data remains
       \/ year < 1                                \* year 0 is out of range
       \/ md[2] > _days_in_month(year, md[1])     \* day is out of range for month
    THEN ValueError
    ELSE [ok |-> TRUE, date |-> _ymd2ord(year, md[1], md[2])]

strptime(s) ==
    IF Len(s) >= 5 /\ (\A i \in 1..4 : IsDigit(s[i])) /\ s[5] = "-"
    THEN Converted(s,
                   1000 * DigitVal(s[1]) + 100 * DigitVal(s[2])
                       + 10 * DigitVal(s[3]) + DigitVal(s[4]),
                   MatchMonth(s, MatchRest(s, 8), MatchRest(s, 7)))
    ELSE ValueError

-----------------------------------------------------------------------------
(* The OrderedDict self.calendar_db and the JSON file. *)

\* list(d.keys())
Keys(items) == [i \in 1..Len(items) |-> items[i][1]]

\* key in d
Has(items, key) == \E i \in 1..Len(items) : items[i][1] = key

\* d[key]
Get(items, key) == items[CHOOSE i \in 1..Len(items) : items[i][1] = key][2]

\* x in list
Contains(list, x) == \E i \in 1..Len(list) : list[i] = x

\* The positions at which a key is assigned for the first time.
FirstAssigned(pairs) ==
    SelectSeq([i \in 1..Len(pairs) |-> i],
              LAMBDA i : \A j \in 1..(i - 1) : pairs[j][1] # pairs[i][1])

\* The position of the last assignment of the key assigned at i.
LastAssigned(pairs, i) ==
    CHOOSE j \in i..Len(pairs) :
        /\ pairs[j][1] = pairs[i][1]
        /\ \A l \in (j + 1)..Len(pairs) : pairs[l][1] # pairs[i][1]

DictAt(pairs, firsts) ==
    [i \in 1..Len(firsts) |->
        <<pairs[firsts[i]][1], pairs[LastAssigned(pairs, firsts[i])][2]>>]

\* A dict built by assigning the pairs in order: a key keeps the position of its
\* first assignment and the value of its last.
DictOf(pairs) == DictAt(pairs, FirstAssigned(pairs))

\* sorted(self.calendar_db.items(), key=lambda x: x[0])
SortedItems(items) == SortSeq(items, LAMBDA a, b : a[1] < b[1])

\* OrderedDict(self.calendar_db.items()): the items are left in insertion order.
Unsorted(items) == DictOf(items)

\* OrderedDict(sorted(self.calendar_db.items(), key=lambda x: x[0]))
Resorted(items) == DictOf(SortedItems(items))

NoFile == [state |-> "absent", items |-> <<>>]

\* What open(self.db_file, 'w') leaves when json.dump does not complete.
PartialFile == [state |-> "partial", items |-> <<>>]

\* {date.isoformat(): events for date, events in self.calendar_db.items()}
Serialized(items) ==
    DictOf([i \in 1..Len(items) |-> <<isoformat(items[i][1]), items[i][2]>>])

\* The conditions of the file system: a write succeeds, open(..., 'w') raises
\* (the file is left as it is), or json.dump raises after open truncated the file.
FileSystems == {"ok", "readonly", "full"}

\* How a write of the file goes.
IOOf(f) == CASE f = "ok"       -> "ok"
             [] f = "readonly" -> "open_fails"
             [] OTHER          -> "dump_fails"

\* _save_calendar_db: the file afterwards.
_save_calendar_db(items, dsk, io) ==
    CASE io = "ok"         -> [state |-> "json", items |-> Serialized(items)]
      [] io = "open_fails" -> dsk
      [] OTHER             -> PartialFile

\* _load_calendar_db returns (the file is absent, or it is whole, every key of
\* it parses and is found again under its isoformat); otherwise it raises.
LoadOk(dsk) ==
    \/ dsk.state = "absent"
    \/ /\ dsk.state = "json"
       /\ \A i \in 1..Len(dsk.items) :
             /\ strptime(dsk.items[i][1]).ok
             /\ Has(dsk.items, isoformat(strptime(dsk.items[i][1]).date))

\* calendar_db[date] = db[date.isoformat()], for date in sorted_dates
Reloaded(db, sorted_dates) ==
    DictOf([i \in 1..Len(sorted_dates) |->
               <<sorted_dates[i], Get(db, isoformat(sorted_dates[i]))>>])

_load_calendar_db(dsk) ==
    IF dsk.state = "absent"
    THEN <<>>
    ELSE Reloaded(dsk.items,
                  SortSeq([i \in 1..Len(dsk.items) |-> strptime(dsk.items[i][1]).date],
                          LAMBDA a, b : a < b))

-----------------------------------------------------------------------------
(* The store's operations, as functions of the state they run in.  Each     *)
(* gives the calendar and the file afterwards, whether it raised, and what  *)
(* it returned.                                                             *)

Outcome(kind, date, ev) == [kind |-> kind, date |-> date, event |-> ev]

\* "Invalid date format. Please use 'YYYY-MM-DD'."
InvalidDate == Outcome("InvalidDate", <<>>, "")

NoResult == Outcome("None", <<>>, "")

After(items, dsk, raised, result) ==
    [items |-> items, disk |-> dsk, raised |-> raised, result |-> result]

\* self.calendar_db[date_obj] = [], whether date_obj is in it or not.
Recreated(items, date_obj) ==
    IF Has(items, date_obj)
    THEN [i \in 1..Len(items) |->
             IF items[i][1] = date_obj THEN <<date_obj, <<>>>> ELSE items[i]]
    ELSE Append(items, <<date_obj, <<>>>>)

\* self.calendar_db[date_obj] = [] when date_obj is not in it
Created(items, date_obj) ==
    IF Has(items, date_obj) THEN items ELSE Append(items, <<date_obj, <<>>>>)

\* The list is left as it is: nothing is appended.
NotAppended(items, date_obj, ev) == items

\* self.calendar_db[date_obj].insert(0, event): the event is put first.
Prepended(items, date_obj, ev) ==
    [i \in 1..Len(items) |->
        IF items[i][1] = date_obj
        THEN <<date_obj, <<ev>> \o items[i][2]>>
        ELSE items[i]]

\* self.calendar_db[date_obj].append(event)
Appended(items, date_obj, ev) ==
    [i \in 1..Len(items) |->
        IF items[i][1] = date_obj
        THEN <<date_obj, Append(items[i][2], ev)>>
        ELSE items[i]]

\* add_event from its save on, with the exception of the save caught and passed over.
add_event_unsaved(resorted, dsk, date, ev, io) ==
    After(resorted, _save_calendar_db(resorted, dsk, io), FALSE,
          Outcome("Added", date, ev))

\* add_event from its save on (lines 78-80).
add_event_saved(resorted, dsk, date, ev, io) ==
    After(resorted, _save_calendar_db(resorted, dsk, io), io # "ok",
          IF io = "ok" THEN Outcome("Added", date, ev) ELSE NoResult)

\* add_event that saves the file before it reports the duplicate.
add_event_rewritten(created, dsk, date, ev, io, date_obj) ==
    IF Contains(Get(created, date_obj), ev)
    THEN After(created, _save_calendar_db(created, dsk, io), io # "ok",
               IF io = "ok" THEN Outcome("Duplicate", date, ev) ELSE NoResult)
    ELSE add_event_saved(Resorted(Appended(created, date_obj, ev)), dsk, date, ev, io)

\* add_event from line 72 on: the duplicate check of lines 68-70 is left out.
add_event_unchecked(created, dsk, date, ev, io, date_obj) ==
    add_event_saved(Resorted(Appended(created, date_obj, ev)), dsk, date, ev, io)

\* add_event from its duplicate check on (lines 68-80).
add_event_checked(created, dsk, date, ev, io, date_obj) ==
    IF Contains(Get(created, date_obj), ev)
    THEN After(created, dsk, FALSE, Outcome("Duplicate", date, ev))
    ELSE add_event_saved(Resorted(Appended(created, date_obj, ev)), dsk, date, ev, io)

\* add_event after the date is parsed (lines 61-80).
add_event_parsed(items, dsk, date, ev, io, parsed) ==
    IF ~parsed.ok
    THEN After(items, dsk, FALSE, InvalidDate)
    ELSE add_event_checked(Created(items, parsed.date), dsk, date, ev, io, parsed.date)

\* add_event(date, event), the write going as io says.
add_event(items, dsk, date, ev, io) ==
    add_event_parsed(items, dsk, date, ev, io, strptime(date))

Shown(kind, date, events, is_event) ==
    [kind |-> kind, date |-> date, events |-> events, is_event |-> is_event]

\* show_events without the test of line 100: a date that is a key has events.
show_events_present(items, date, parsed) ==
    IF ~parsed.ok
    THEN Shown("InvalidDate", <<>>, <<>>, FALSE)
    ELSE IF Has(items, parsed.date)
         THEN Shown("Listing", date, Get(items, parsed.date), TRUE)
         ELSE Shown("NoEvents", date, <<>>, FALSE)

\* show_events after the date is parsed (lines 94-106).
show_events_parsed(items, date, parsed) ==
    IF ~parsed.ok
    THEN Shown("InvalidDate", <<>>, <<>>, FALSE)
    ELSE IF Has(items, parsed.date) /\ Get(items, parsed.date) # <<>>
         THEN Shown("Listing", date, Get(items, parsed.date), TRUE)
         ELSE Shown("NoEvents", date, <<>>, FALSE)

\* show_events(date)
show_events(items, date) == show_events_parsed(items, date, strptime(date))

\* The dates up to the cutoff, the cutoff date with them (<=).
dates_up_to(items, cutoff_date_obj) ==
    SelectSeq(Keys(items), LAMBDA date : date <= cutoff_date_obj)

\* [date for date in self.calendar_db.keys() if date < cutoff_date_obj]
dates_to_remove(items, cutoff_date_obj) ==
    SelectSeq(Keys(items), LAMBDA date : date < cutoff_date_obj)

\* for date in dates_to_remove: del self.calendar_db[date]
Deleted(items, removed) ==
    SelectSeq(items, LAMBDA it : \A i \in 1..Len(removed) : removed[i] # it[1])

\* cut_events_before_date from its save on (lines 128-129).
cut_events_saved(kept, dsk, cutoff_date, io) ==
    After(kept, _save_calendar_db(kept, dsk, io), io # "ok",
          IF io = "ok" THEN Outcome("Removed", cutoff_date, "") ELSE NoResult)

\* cut_events_before_date after the date is parsed (lines 118-129).
cut_events_parsed(items, dsk, cutoff_date, io, parsed) ==
    IF ~parsed.ok
    THEN After(items, dsk, FALSE, InvalidDate)
    ELSE cut_events_saved(Deleted(items, dates_to_remove(items, parsed.date)),
                          dsk, cutoff_date, io)

\* cut_events_before_date(cutoff_date), the write going as io says.
cut_events_before_date(items, dsk, cutoff_date, io) ==
    cut_events_parsed(items, dsk, cutoff_date, io, strptime(cutoff_date))

-----------------------------------------------------------------------------
(***************************************************************************)
(* add_multiple's arithmetic.  exponent_base is a float; the model takes   *)
(* the multiples of one half, written as the number of halves (2 is 1.0,   *)
(* 3 is 1.5, 4 is 2.0).  gap is then a dyadic rational, kept exactly as    *)
(* whole + frac / 2^exp with 0 <= frac < 2^exp; a float holds it exactly   *)
(* as long as it has at most 53 significant bits, which covers every gap   *)
(* the loop reaches for these factors within the 30-year range.            *)
(***************************************************************************)

Dyadic(whole, frac, exp) == [whole |-> whole, frac |-> frac, exp |-> exp]

\* gap = 1
InitialGap == Dyadic(1, 0, 0)

RECURSIVE Reduced(_)
Reduced(g) ==
    IF g.exp > 0 /\ g.frac % 2 = 0
    THEN Reduced(Dyadic(g.whole, g.frac \div 2, g.exp - 1))
    ELSE g

\* whole_halves / 2 + frac_halves / 2^(exp + 1), with frac_halves < 2^(exp + 1) * 8
Halved(whole_halves, frac_halves, exp) ==
    Reduced(Dyadic((whole_halves \div 2) + (frac_halves \div (2 ^ (exp + 1))),
                   frac_halves % (2 ^ (exp + 1)),
                   exp + 1))

\* gap += exponent_base: the gap grows by the base, not by the factor of it.
GapPlus(g, halves) ==
    Halved(2 * g.whole + halves, 2 * g.frac, g.exp)

\* gap = int(gap * exponent_base): the gap is cut to whole days at each step.
GapTimesFloored(g, halves) == Dyadic((g.whole * halves) \div 2, 0, 0)

\* gap *= exponent_base
GapTimes(g, halves) ==
    Halved(g.whole * halves,
           ((g.whole * halves) % 2) * (2 ^ g.exp) + halves * g.frac,
           g.exp)

\* timedelta(days=gap).days: date + timedelta uses the days alone, and the
\* timedelta's rounding to microseconds cannot carry into them here.
timedelta_days(g) == g.whole

\* The days of timedelta(days=365 * 30).
HorizonDays == 365 * 30

\* date + timedelta raises OverflowError past date.max.
DateOverflow(ord) == ord > MaxOrdinal

-----------------------------------------------------------------------------
(* Inputs. *)

D_2024_01_01 == <<"2", "0", "2", "4", "-", "0", "1", "-", "0", "1">>
D_2023_12_31 == <<"2", "0", "2", "3", "-", "1", "2", "-", "3", "1">>
D_2024_1_8   == <<"2", "0", "2", "4", "-", "1", "-", "8">>
D_2024_02_30 == <<"2", "0", "2", "4", "-", "0", "2", "-", "3", "0">>
D_slashes    == <<"2", "0", "2", "4", "/", "0", "1", "/", "0", "1">>
D_9970_01_01 == <<"9", "9", "7", "0", "-", "0", "1", "-", "0", "1">>
D_9999_01_01 == <<"9", "9", "9", "9", "-", "0", "1", "-", "0", "1">>

\* The date strings the calls are made with; the last two are malformed.
DateStrings == {D_2024_01_01, D_2023_12_31, D_2024_1_8, D_2024_02_30, D_slashes}

Events == {"a", "b"}

\* start_date: <<>> is None, <<s>> is the string s.
StartDates == {<<>>, <<D_2024_01_01>>, <<D_2024_02_30>>}

\* exponent_base in halves: 2.0
Factors == {4}

\* The scheduler alone: exponent_base 1.0, 1.5, 2.0, 2.5, 5.0 and 2000.0.
GenFactors == {2, 3, 4, 5, 10, 4000}

GenStartDates ==
    {<<>>, <<D_2024_01_01>>, <<D_2023_12_31>>, <<D_9970_01_01>>, <<D_9999_01_01>>,
     <<D_slashes>>}

\* The day the run starts on.
Clock0 == _ymd2ord(2024, 1, 1)

-----------------------------------------------------------------------------
(***************************************************************************)
(* topic_bot.  The words of a command (context.args) and the topic made of *)
(* them are sequences of characters.  The handlers are coroutines on one   *)
(* event loop: a task keeps the thread until it awaits, and gives it up at *)
(* each await.  The updates are handled one after the other; the daily     *)
(* reminder is a job of the scheduler on the same loop, and can run while  *)
(* a handler awaits.  One remind_topic runs at a time.                     *)
(***************************************************************************)

\* None
None == "None"

RECURSIVE int(_)
int(digits) ==
    IF digits = <<>> THEN 0
    ELSE 10 * int(SubSeq(digits, 1, Len(digits) - 1)) + DigitVal(digits[Len(digits)])

AllDigits(s) == \A i \in 1..Len(s) : IsDigit(s[i])

AllZeros(s) == \A i \in 1..Len(s) : s[i] = "0"

\* The halves of the fraction .f: the words of the model have the fractions
\* .0 and .5 alone, and no other is a number of halves.
FractionHalves(f) ==
    CASE AllZeros(f) -> 0
      [] f # <<>> /\ f[1] = "5" /\ AllZeros(Tail(f)) -> 1

FloatError == [ok |-> FALSE, halves |-> 0]

\* float(word) for a word of digits with at most one point in it, in halves;
\* ValueError for a word that is no number.
FloatAt(word, point) ==
    IF /\ AllDigits(SubSeq(word, 1, point - 1))
       /\ AllDigits(SubSeq(word, point + 1, Len(word)))
       /\ Len(word) > 1
    THEN [ok |-> TRUE,
          halves |-> 2 * int(SubSeq(word, 1, point - 1))
                       + FractionHalves(SubSeq(word, point + 1, Len(word)))]
    ELSE FloatError

float(word) ==
    IF word # <<>> /\ AllDigits(word)
    THEN [ok |-> TRUE, halves |-> 2 * int(word)]
    ELSE IF \E i \in 1..Len(word) : word[i] = "."
    THEN FloatAt(word, CHOOSE i \in 1..Len(word) : word[i] = ".")
    ELSE FloatError

\* " ".join(words)
RECURSIVE join(_)
join(words) ==
    IF words = <<>> THEN <<>>
    ELSE IF Len(words) = 1 THEN words[1]
    ELSE words[1] \o <<" ">> \o join(Tail(words))

\* 1 <= exponent_base <= 5 for the float of the last word
IsBase(parsed) == parsed.ok /\ 2 <= parsed.halves /\ parsed.halves <= 10

\* topic and exponent_base as add takes them from its words (lines 132-143).
TopicOf(args, parsed) ==
    IF IsBase(parsed) THEN join(SubSeq(args, 1, Len(args) - 1)) ELSE join(args)

BaseOf(parsed) == IF IsBase(parsed) THEN parsed.halves ELSE 4

\* datetime.now().strftime("%Y-%m-%d")
strftime(now) == isoformat(now)

\* The date remind_topic asks the calendar about (lines 56-66): date is <<>>
\* for None, <<s>> for the string s.
IsGiven(date) == date # <<>> /\ date[1] # <<>> /\ strptime(date[1]).ok

\* The date as it is given, valid or not: today for None alone.
requested_date(date, now) == IF date # <<>> THEN date[1] ELSE strftime(now)

current_date(date, now) == IF IsGiven(date) THEN date[1] ELSE strftime(now)

NoReminder ==
    [manual |-> FALSE, requested |-> <<>>, current_date |-> <<>>,
     shown |-> Shown("None", <<>>, <<>>, FALSE)]

BotInit ==
    [thread        |-> "none",    \* the task that runs
     add           |-> "idle",    \* add: "idle", "running", or "reply" in its await
     reply         |-> "",        \* what add replies: "result" or "error"
     topic         |-> None,      \* the global topic
     exponent_base |-> None,      \* the global exponent_base
     remind        |-> "idle",    \* remind_topic: "idle", "send" or "reply" in an await
     reminder      |-> NoReminder,\* the remind_topic call that runs, or ran last
     sent          |-> <<>>]      \* the reminders delivered

\* A task that gives the thread up where it calls, as at an await.
Yielded(b, task) == [b EXCEPT !.thread = "none"]

\* A task goes on in a synchronous call: it keeps the thread.
Running(b, task) == [b EXCEPT !.thread = task]

\* The words of the /add commands.
W_a == <<"a">>
W_3 == <<"3">>
W_9 == <<"9">>
W_1_5 == <<"1", ".", "5">>

BotArgs == {<<>>, <<W_a>>, <<W_3>>, <<W_a, W_3>>, <<W_a, W_9>>, <<W_a, W_1_5>>}

\* The date of /remind: none, a date, a date without padding, two malformed.
RemindDates ==
    {<<>>, <<D_2024_01_01>>, <<D_2024_1_8>>, <<D_slashes>>, <<D_2024_02_30>>}

-----------------------------------------------------------------------------
(* The state machine. *)

Returned(op, args, result) ==
    [op |-> op, args |-> args, raised |-> "", result |-> result]

Raised(op, args, exception) ==
    [op |-> op, args |-> args, raised |-> exception, result |-> <<>>]

NoCalls == [n |-> 0, first |-> 0, last |-> 0, step |-> 0]

\* No call is recorded as the one before.
NoPrev == [op |-> "", args |-> <<>>, result |-> <<>>, items |-> <<>>, disk |-> NoFile]

\* The last call, if it was an add_multiple call that returned, with the
\* calendar and the file as it left them.
Previous ==
    IF ret.op = "add_multiple" /\ ret.raised = ""
    THEN [op |-> ret.op, args |-> ret.args, result |-> ret.result,
          items |-> calendar_db, disk |-> disk]
    ELSE NoPrev

\* add_multiple is not running: it has no locals.
NoLocals ==
    /\ event' = ""
    /\ exponent_base' = 0
    /\ start_date_obj' = 0
    /\ end_date_obj' = 0
    /\ current_date_obj' = 0
    /\ gap' = InitialGap
    /\ output' = <<>>
    /\ prev' = NoPrev

\* CalendarManager(): the calendar is loaded from the file.
Init == /\ disk = NoFile
        /\ calendar_db = _load_calendar_db(disk)
        /\ today = Clock0
        /\ pc = "idle"
        /\ event = ""
        /\ exponent_base = 0
        /\ start_date_obj = 0
        /\ end_date_obj = 0
        /\ current_date_obj = 0
        /\ gap = InitialGap
        /\ output = <<>>
        /\ calls = NoCalls
        /\ ret = Returned("__init__", <<>>, <<>>)
        /\ nops = 0
        /\ fs = "ok"
        /\ prev = NoPrev
        /\ bot = BotInit

\* The dates datetime.now().date() can give: the clock does not go back.
Now == today..(Clock0 + MaxClockDays)

\* The process starts again: CalendarManager() reloads the file.
Restart == /\ pc = "idle"
           /\ LoadOk(disk)
           /\ calendar_db' = _load_calendar_db(disk)
           /\ ret' = Returned("__init__", <<>>, <<>>)
           /\ UNCHANGED <<disk, today, pc, locals, calls, fs, nops, bot>>

\* The condition of the file system changes.  It does so between two calls of
\* the store's methods, not within one: the writes of one add_multiple call
\* all succeed, or the first of them fails.
FsChange == /\ pc = "idle"
            /\ \E f \in FileSystems \ {fs} : fs' = f
            /\ UNCHANGED <<calendar_db, disk, today, pc, locals, calls, ret, nops, bot>>

\* A call of the store ends as r says.
StoreCall(op, args, r) ==
    /\ calendar_db' = r.items
    /\ disk' = r.disk
    /\ ret' = IF r.raised THEN Raised(op, args, "OSError")
                          ELSE Returned(op, args, r.result)

Add == /\ pc = "idle"
       /\ nops < MaxOps
       /\ \E date \in DateStrings, ev \in Events :
             StoreCall("add_event", <<date, ev>>,
                       add_event(calendar_db, disk, date, ev, IOOf(fs)))
       /\ nops' = nops + 1
       /\ UNCHANGED <<today, pc, locals, calls, fs, bot>>

Query == /\ pc = "idle"
         /\ nops < MaxOps
         /\ \E date \in DateStrings :
               ret' = Returned("show_events", <<date>>, show_events(calendar_db, date))
         /\ nops' = nops + 1
         /\ UNCHANGED <<calendar_db, disk, today, pc, locals, calls, fs, bot>>

PruneBefore ==
    /\ pc = "idle"
    /\ nops < MaxOps
    /\ \E cutoff_date \in DateStrings :
          StoreCall("cut_events_before_date", <<cutoff_date>>,
                    cut_events_before_date(calendar_db, disk, cutoff_date, IOOf(fs)))
    /\ nops' = nops + 1
    /\ UNCHANGED <<today, pc, locals, calls, fs, bot>>

\* add_multiple from the end date on, up to its while loop (lines 152-160).
add_multiple_parsed(args, parsed) ==
    IF ~parsed.ok
    THEN /\ ret' = Returned("add_multiple", args, Outcome("InvalidStartDate", <<>>, ""))
         /\ UNCHANGED <<pc, locals, calls>>
    ELSE IF DateOverflow(parsed.date + HorizonDays)
    THEN /\ ret' = Raised("add_multiple", args, "OverflowError")
         /\ UNCHANGED <<pc, locals, calls>>
    ELSE /\ pc' = "loop"
         /\ event' = args[1]
         /\ exponent_base' = args[2]
         /\ start_date_obj' = parsed.date
         /\ end_date_obj' = parsed.date + HorizonDays
         /\ gap' = InitialGap
         /\ current_date_obj' = parsed.date
         /\ output' = <<>>
         /\ prev' = Previous
         /\ calls' = NoCalls
         /\ ret' = Returned("add_multiple", args, <<>>)

\* add_multiple(event, exponent_base, start_date) is called (lines 142-160); now
\* is the date the clock gives if it is read.
add_multiple_enter(ev, halves, start_date, now) ==
    /\ pc = "idle"
    /\ nops' = nops + 1
    /\ today' = IF start_date = <<>> THEN now ELSE today
    /\ UNCHANGED <<calendar_db, disk, fs>>
    /\ add_multiple_parsed(<<ev, halves, start_date>>,
                           IF start_date = <<>>
                           THEN [ok |-> TRUE, date |-> now]
                           ELSE strptime(start_date[1]))

\* The add_event call of one iteration, recorded.
Called(c, date_obj) ==
    [n     |-> c.n + 1,
     first |-> IF c.n = 0 THEN date_obj ELSE c.first,
     last  |-> date_obj,
     step  |-> IF c.n = 0 THEN 0 ELSE date_obj - c.last]

\* An exception leaves add_multiple.
add_multiple_raise(exception) ==
    /\ pc' = "idle"
    /\ ret' = [ret EXCEPT !.raised = exception]
    /\ NoLocals

\* current_date_obj += timedelta(days=gap); gap *= exponent_base
add_multiple_advance(next_date) ==
    IF DateOverflow(next_date)
    THEN add_multiple_raise("OverflowError")
    ELSE /\ current_date_obj' = next_date
         /\ gap' = GapTimes(gap, exponent_base)
         /\ UNCHANGED <<pc, ret, event, exponent_base, start_date_obj, end_date_obj,
                        prev>>

\* One iteration that leaves the loop (break) when add_event finds a duplicate.
add_multiple_stops(stub, r) ==
    /\ calendar_db' = r.items
    /\ disk' = r.disk
    /\ calls' = Called(calls, current_date_obj)
    /\ IF r.raised
       THEN add_multiple_raise("OSError")
       ELSE /\ output' = IF stub THEN output ELSE Append(output, r.result)
            /\ IF r.result.kind = "Duplicate"
               THEN /\ current_date_obj' = end_date_obj + 1
                    /\ UNCHANGED <<pc, ret, event, exponent_base, start_date_obj,
                                   end_date_obj, gap, prev>>
               ELSE add_multiple_advance(current_date_obj + timedelta_days(gap))

\* One iteration, add_event ending as r says.
add_multiple_iterated(stub, r) ==
    /\ calendar_db' = r.items
    /\ disk' = r.disk
    /\ calls' = Called(calls, current_date_obj)
    /\ IF r.raised
       THEN add_multiple_raise("OSError")
       ELSE /\ output' = IF stub THEN output ELSE Append(output, r.result)
            /\ add_multiple_advance(current_date_obj + timedelta_days(gap))

\* One iteration of the while loop (lines 161-166).  With stub, add_event is a
\* recording stub: the call is counted and nothing is stored or collected.
add_multiple_iterate(stub) ==
    /\ pc = "loop"
    /\ current_date_obj <= end_date_obj
    /\ add_multiple_iterated(stub,
          IF stub
          THEN After(calendar_db, disk, FALSE, NoResult)
          ELSE add_event(calendar_db, disk, isoformat(current_date_obj), event, IOOf(fs)))
    /\ UNCHANGED <<today, fs, nops, bot>>

\* The loop ends and add_multiple returns its output (line 168).
add_multiple_return ==
    /\ pc = "loop"
    /\ current_date_obj > end_date_obj
    /\ pc' = "idle"
    /\ ret' = [ret EXCEPT !.result = output]
    /\ NoLocals
    /\ UNCHANGED <<calendar_db, disk, today, calls, fs, nops>>

ScheduleExponential ==
    /\ nops < MaxOps
    /\ UNCHANGED bot
    /\ \E ev \in Events, halves \in Factors, start_date \in StartDates, now \in Now :
          add_multiple_enter(ev, halves, start_date, now)

ScheduleStep == add_multiple_iterate(FALSE)

ScheduleReturn == add_multiple_return /\ UNCHANGED bot

Next == \/ Restart
        \/ FsChange
        \/ Add
        \/ Query
        \/ PruneBefore
        \/ ScheduleExponential
        \/ ScheduleStep
        \/ ScheduleReturn

Spec == Init /\ [][Next]_vars

(* The scheduler alone, run once against a recording stub of add_event. *)

GenEnter ==
    /\ nops = 0
    /\ UNCHANGED bot
    /\ \E ev \in Events, halves \in GenFactors, start_date \in GenStartDates,
          now \in Now :
          add_multiple_enter(ev, halves, start_date, now)

GenStep == add_multiple_iterate(TRUE)

GenNext == \/ GenEnter
           \/ GenStep
           \/ ScheduleReturn

GenSpec == Init /\ [][GenNext]_vars

\* The loop is scheduled until it ends: nothing else runs on the thread.
FairGenSpec == GenSpec /\ WF_vars(GenStep) /\ WF_vars(ScheduleReturn)

-----------------------------------------------------------------------------
(* The bot's handlers. *)

\* add fails before it calls the calendar (line 130); the exception is caught
\* at line 150 and add awaits its reply.
add_no_args ==
    /\ nops' = nops + 1
    /\ bot' = [bot EXCEPT !.add = "reply", !.reply = "error"]
    /\ UNCHANGED <<calendar_db, disk, today, pc, locals, calls, fs, ret>>

\* add up to its call of add_multiple (lines 132-146).
add_parsed(args, parsed, now) ==
    /\ add_multiple_enter(TopicOf(args, parsed), BaseOf(parsed), <<>>, now)
    /\ bot' = Running([bot EXCEPT !.add = "running",
                                  !.topic = TopicOf(args, parsed),
                                  !.exponent_base = BaseOf(parsed)], "add")

\* The /add command: add(update, context) runs up to its call of add_multiple.
BotAdd ==
    /\ bot.thread = "none"
    /\ bot.add = "idle"
    /\ ~(bot.remind # "idle" /\ bot.reminder.manual)
    /\ nops < MaxOps
    /\ \E args \in BotArgs, now \in Now :
          IF Len(args) < 1
          THEN add_no_args
          ELSE add_parsed(args, float(args[Len(args)]), now)

\* add_multiple's loop runs on in the task of add.
BotStep == bot.thread = "add" /\ add_multiple_iterate(FALSE)

\* add_multiple returns, and add awaits reply_text(result) (line 149).
BotAddReturns ==
    /\ bot.thread = "add"
    /\ add_multiple_return
    /\ bot' = [bot EXCEPT !.thread = "none", !.add = "reply", !.reply = "result"]

\* add_multiple has raised: add catches the exception and awaits
\* reply_text("An error occurred: ...") (lines 150-151).
BotAddCaught ==
    /\ bot.thread = "add"
    /\ pc = "idle"
    /\ ret.raised # ""
    /\ bot' = [bot EXCEPT !.thread = "none", !.add = "reply", !.reply = "error"]
    /\ UNCHANGED <<calendar_db, disk, today, pc, locals, calls, fs, ret, nops>>

\* The reply is sent and add ends.
BotReplied ==
    /\ bot.thread = "none"
    /\ bot.add = "reply"
    /\ bot' = [bot EXCEPT !.add = "idle", !.reply = ""]
    /\ UNCHANGED <<calendar_db, disk, today, pc, locals, calls, fs, ret, nops>>

\* remind_topic after show_events has returned (lines 69-73).
remind_shown(manual, date, now, shown) ==
    /\ ret' = Returned("show_events", <<current_date(date, now)>>, shown)
    /\ bot' = [bot EXCEPT
                 !.reminder = [manual |-> manual, requested |-> date,
                               current_date |-> current_date(date, now),
                               shown |-> shown],
                 !.remind = IF shown.is_event THEN "send"
                            ELSE IF manual THEN "reply" ELSE "idle"]

\* remind_topic(app, date) up to its await (lines 56-72): as the daily job, with
\* no date, or from trigger_reminder, the handler of /remind.
remind_topic(manual, date, now) ==
    /\ bot.thread = "none"
    /\ bot.remind = "idle"
    /\ manual => bot.add = "idle"
    /\ nops' = nops + 1
    /\ today' = IF IsGiven(date) THEN today ELSE now
    /\ remind_shown(manual, date, now, show_events(calendar_db, current_date(date, now)))
    /\ UNCHANGED <<calendar_db, disk, pc, locals, calls, fs>>

BotRemind ==
    /\ nops < MaxOps
    /\ \E manual \in BOOLEAN, date \in RemindDates, now \in Now :
          /\ ~manual => date = <<>>
          /\ remind_topic(manual, date, now)

\* send_message delivers the reminder (line 73).
BotSent ==
    /\ bot.thread = "none"
    /\ bot.remind = "send"
    /\ bot' = [bot EXCEPT !.sent = Append(@, bot.reminder.shown),
                          !.remind = IF bot.reminder.manual THEN "reply" ELSE "idle"]
    /\ UNCHANGED <<calendar_db, disk, today, pc, locals, calls, fs, ret, nops>>

\* trigger_reminder replies "Manual reminder sent successfully!" (line 161).
BotReminded ==
    /\ bot.thread = "none"
    /\ bot.remind = "reply"
    /\ bot' = [bot EXCEPT !.remind = "idle"]
    /\ UNCHANGED <<calendar_db, disk, today, pc, locals, calls, fs, ret, nops>>

BotNext == \/ BotAdd
           \/ BotStep
           \/ BotAddReturns
           \/ BotAddCaught
           \/ BotReplied
           \/ BotRemind
           \/ BotSent
           \/ BotReminded
           \/ FsChange

BotSpec == Init /\ [][BotNext]_vars

-----------------------------------------------------------------------------
(* What the claims are stated in. *)

\* A call of op is made in this step.
Calls(op) == nops' = nops + 1 /\ ret'.op = op

\* The last call was of op and returned (it did not raise, and is not running).
HasReturned(op) == pc = "idle" /\ ret.op = op /\ ret.raised = ""

\* The events stored under a date: none when the date is no key.
EventsOn(items, date_obj) ==
    IF Has(items, date_obj) THEN Get(items, date_obj) ELSE <<>>

\* How often ev occurs in a list.
Count(list, ev) == Cardinality({i \in 1..Len(list) : list[i] = ev})

\* The dates the input strings stand for, and the malformed inputs.
ValidDates ==
    [s \in {D_2024_01_01, D_2023_12_31, D_2024_1_8} |->
        CASE s = D_2024_01_01 -> _ymd2ord(2024, 1, 1)
          [] s = D_2023_12_31 -> _ymd2ord(2023, 12, 31)
          [] OTHER            -> _ymd2ord(2024, 1, 8)]

Malformed == {D_2024_02_30, D_slashes}

\* The file holds exactly the calendar items: the same dates, the same lists.
DiskHolds(items) ==
    /\ disk.state = "json"
    /\ Len(disk.items) = Len(items)
    /\ \A i \in 1..Len(items) :
          /\ strptime(disk.items[i][1]) = [ok |-> TRUE, date |-> items[i][1]]
          /\ disk.items[i][2] = items[i][2]

-----------------------------------------------------------------------------
\* C1: No date's list holds the same event text twice, in any state; and a
\* call Add(d, e) with a valid d that returns, returns Added exactly when e was
\* not stored under d and Duplicate exactly when it was (so Added, then
\* Duplicate), and leaves e exactly once in d's list.
NoDuplicateEvents ==
    \A i \in 1..Len(calendar_db) :
        \A j, k \in 1..Len(calendar_db[i][2]) :
            calendar_db[i][2][j] = calendar_db[i][2][k] => j = k

AddedThenDuplicate ==
    \A s \in DOMAIN ValidDates :
        (Calls("add_event") /\ ret'.args[1] = s /\ ret'.raised = "") =>
            /\ ret'.result.kind =
                  IF Contains(EventsOn(calendar_db, ValidDates[s]), ret'.args[2])
                  THEN "Duplicate" ELSE "Added"
            /\ Count(EventsOn(calendar_db', ValidDates[s]), ret'.args[2]) = 1

C1_AddIsIdempotent == []NoDuplicateEvents /\ [][AddedThenDuplicate]_vars

\* An Add returned Duplicate: the second of two Adds of the same date and event.
C1_Witness ==
    /\ HasReturned("add_event")
    /\ ret.result.kind = "Duplicate"
    /\ Count(EventsOn(calendar_db, ValidDates[ret.args[1]]), ret.args[2]) = 1

\* C2: Add, Query and PruneBefore with a malformed date string return the
\* invalid-date outcome (Query with hasEvents false) and leave the calendar and
\* the file as they were.
MalformedRejected ==
    \A op \in {"add_event", "show_events", "cut_events_before_date"} :
        (Calls(op) /\ ret'.args[1] \in Malformed) =>
            /\ ret'.raised = ""
            /\ ret'.result.kind = "InvalidDate"
            /\ op = "show_events" => ~ret'.result.is_event
            /\ calendar_db' = calendar_db
            /\ disk' = disk

C2_MalformedDateChangesNothing == [][MalformedRejected]_vars

\* PruneBefore was called with a malformed date on a calendar that holds events.
C2_Witness ==
    /\ HasReturned("cut_events_before_date")
    /\ ret.args[1] \in Malformed
    /\ ret.result.kind = "InvalidDate"
    /\ calendar_db # <<>>
    /\ DiskHolds(calendar_db)

\* C3: The calendar's keys, in iteration order, are strictly ascending.
C3_KeysAscending ==
    \A i, j \in 1..Len(calendar_db) : i < j => calendar_db[i][1] < calendar_db[j][1]

\* An Add of a date earlier than a date added before it: the new key is first.
C3_Witness ==
    /\ HasReturned("add_event")
    /\ ret.result.kind = "Added"
    /\ Len(calendar_db) >= 2
    /\ calendar_db[1][1] = ValidDates[ret.args[1]]

\* C4: PruneBefore(c) with a valid c removes exactly the keys earlier than c:
\* every key left is >= c, and every key >= c is left, with its list and in its
\* place; and when it returns, it reports success, whatever it removed.
PrunedExactly(c) ==
    /\ \A i \in 1..Len(calendar_db') : calendar_db'[i][1] >= c
    /\ \A i \in 1..Len(calendar_db) :
          calendar_db[i][1] >= c =>
              /\ Has(calendar_db', calendar_db[i][1])
              /\ Get(calendar_db', calendar_db[i][1]) = calendar_db[i][2]
    /\ \A i \in 1..Len(calendar_db') :
          /\ Has(calendar_db, calendar_db'[i][1])
          /\ Get(calendar_db, calendar_db'[i][1]) = calendar_db'[i][2]
    /\ ret'.raised = "" => ret'.result.kind = "Removed"

PruneRemovesEarlier ==
    \A s \in DOMAIN ValidDates :
        (Calls("cut_events_before_date") /\ ret'.args[1] = s) =>
            PrunedExactly(ValidDates[s])

C4_PruneIsExact == [][PruneRemovesEarlier]_vars

\* PruneBefore("2024-1-8") after a schedule from 2024-01-01: the keys at offsets
\* 0, 1 and 3 are gone, the key equal to the cutoff is the first of the 11 left.
C4_Witness ==
    /\ HasReturned("cut_events_before_date")
    /\ ret.args[1] = D_2024_1_8
    /\ ret.result.kind = "Removed"
    /\ Len(calendar_db) = 11
    /\ calendar_db[1][1] = _ymd2ord(2024, 1, 8)

\* C5: When Add has returned Added or PruneBefore has returned success, the
\* file holds exactly the calendar; so it does after each Added that add_multiple
\* collects.
C5_SuccessIsDurable ==
    /\ (HasReturned("add_event") /\ ret.result.kind = "Added") => DiskHolds(calendar_db)
    /\ (HasReturned("cut_events_before_date") /\ ret.result.kind = "Removed")
          => DiskHolds(calendar_db)
    /\ (pc = "loop" /\ output # <<>> /\ output[Len(output)].kind = "Added")
          => DiskHolds(calendar_db)

\* The second of two calls, an Add, has returned Added, and the calendar and
\* the file hold two dates.
C5_Witness ==
    /\ HasReturned("add_event")
    /\ ret.result.kind = "Added"
    /\ nops = 2
    /\ Len(calendar_db) = 2
    /\ DiskHolds(calendar_db)

\* C6: Persisting the calendar and loading it again gives the same mapping:
\* the same dates, the same list for each, in the same order.
C6_RoundTrip ==
    /\ LoadOk(_save_calendar_db(calendar_db, disk, "ok"))
    /\ _load_calendar_db(_save_calendar_db(calendar_db, disk, "ok")) = calendar_db

\* The process has started again on a file of several dates with two events each.
C6_Witness ==
    /\ pc = "idle"
    /\ ret.op = "__init__"
    /\ Len(calendar_db) >= 2
    /\ \E i \in 1..Len(calendar_db) : calendar_db[i][2] = <<"b", "a">>
    /\ DiskHolds(calendar_db)

-----------------------------------------------------------------------------
(* The scheduler. *)

Start2024 == _ymd2ord(2024, 1, 1)

Horizon2054 == _ymd2ord(2054, 1, 1)

\* The date an outcome of add_event is about.
DateOf(outcome) == strptime(outcome.date).date

\* The n-th date of the doubling sequence from start: offset 2^(n-1) - 1.
Doubling(start, n) == start + 2 ^ (n - 1) - 1

\* How many dates of the doubling sequence from start are not after horizon.
DoublingsUpTo(start, horizon) ==
    Cardinality({n \in 1..20 : Doubling(start, n) <= horizon})

\* The same day and month, years later.
PlusYears(ord, years) ==
    _ymd2ord(_ord2ymd(ord)[1] + years, _ord2ymd(ord)[2], _ord2ymd(ord)[3])

\* C7: ScheduleExponential with growth factor 2 from 2024-01-01 calls Add at
\* the day offsets 0, 1, 3, 7, ... (the n-th at 2^(n-1) - 1) and at no other
\* date, once each and in that order; when it returns, it has done so for
\* every such offset up to the horizon 2054-01-01, and the outcomes it returns
\* are one for each offset, in that order.
C7_DoublingOffsets ==
    (ret.op = "add_multiple" /\ ret.raised = "" /\ ret.args[2] = 4
        /\ ret.args[3] = <<D_2024_01_01>>) =>
        /\ pc = "loop" =>
              /\ calls.n = Len(output)
              /\ \A n \in 1..Len(output) :
                    DateOf(output[n]) = Doubling(Start2024, n)
              /\ current_date_obj = Doubling(Start2024, calls.n + 1)
        /\ pc = "idle" =>
              /\ calls.n = Len(ret.result)
              /\ calls.n = DoublingsUpTo(Start2024, Horizon2054)
              /\ calls.first = Start2024
              /\ calls.last = Doubling(Start2024, calls.n)
              /\ \A n \in 1..Len(ret.result) :
                    DateOf(ret.result[n]) = Doubling(Start2024, n)

\* The schedule from 2024-01-01 has returned its 14 outcomes, the last of them
\* for 2046-06-05, 8191 days after the start.
C7_Witness ==
    /\ HasReturned("add_multiple")
    /\ ret.args = <<"a", 4, <<D_2024_01_01>>>>
    /\ Len(ret.result) = 14
    /\ DateOf(ret.result[14]) = _ymd2ord(2046, 6, 5)
    /\ Has(calendar_db, Start2024 + 8191)

\* C8: ScheduleExponential with growth factor 1 from d calls Add once for
\* every day from d through the same day and month 30 years later, and for no
\* day after it.
C8_DailyForThirtyYears ==
    (ret.op = "add_multiple" /\ ret.raised = "" /\ ret.args[2] = 2 /\ calls.n > 0
        /\ _ord2ymd(calls.first)[1] + 30 <= 9999) =>
        /\ calls.first = start_date_obj \/ pc = "idle"
        /\ calls.n > 1 => calls.step = 1
        /\ calls.last <= PlusYears(calls.first, 30)
        /\ pc = "idle" => calls.last = PlusYears(calls.first, 30)

\* The loop ends, by the return or by an exception, and each iteration moves
\* the date on by a day or more; there are no more add_event calls than days
\* in the range.
LoopEnds ==
    /\ [][pc = "loop" /\ pc' = "loop" =>
            current_date_obj' >= current_date_obj + 1]_vars
    /\ [](pc = "loop" => calls.n <= HorizonDays + 1)
    /\ (pc = "loop" ~> pc = "idle")

\* C9: For every growth factor >= 1 and every start date the loop terminates:
\* each step moves the date on by a day or more, and after a bounded number of
\* steps the date is past the horizon, which is how the loop ends.
C9_TerminatesPastHorizon ==
    /\ LoopEnds
    /\ [][pc = "loop" /\ pc' = "idle" =>
            ret'.raised = "" /\ current_date_obj > end_date_obj]_vars

\* An iteration of the loop whose add_event call returns.
Iterates == pc = "loop" /\ calls'.n = calls.n + 1 /\ ret'.raised = ""

\* C10: ScheduleExponential does not stop on an outcome of Add.  Whatever the
\* calendar held before: an iteration collects one outcome, for the current
\* date, Duplicate if the date held the event and Added if not, and goes on
\* with the loop; the call returns what it collected, one outcome for each
\* date of the sequence and in its order, and each of those dates then holds
\* the event.
OutcomeCollected ==
    Iterates =>
        /\ pc' = "loop"
        /\ output' = Append(output, output'[Len(output')])
        /\ output'[Len(output')].kind =
              IF Contains(EventsOn(calendar_db, current_date_obj), event)
              THEN "Duplicate" ELSE "Added"
        /\ DateOf(output'[Len(output')]) = current_date_obj
        /\ output'[Len(output')].event = event
        /\ Contains(EventsOn(calendar_db', current_date_obj), event)

AllCollected ==
    (pc = "loop" /\ pc' = "idle" /\ ret'.raised = "") =>
        /\ current_date_obj > end_date_obj
        /\ ret'.result = output
        /\ Len(output) = calls.n
        /\ exponent_base = 4 =>
              /\ Len(output) = DoublingsUpTo(start_date_obj, end_date_obj)
              /\ Len(output) = DoublingsUpTo(start_date_obj, PlusYears(start_date_obj, 30))
        /\ \A n \in 1..Len(output) :
              /\ exponent_base = 4 => DateOf(output[n]) = Doubling(start_date_obj, n)
              /\ output[n].kind \in {"Added", "Duplicate"}
              /\ Contains(EventsOn(calendar_db', DateOf(output[n])), event)

C10_NoEarlyStop == [][OutcomeCollected /\ AllCollected]_vars

\* A schedule has returned its 14 outcomes, Duplicate for a date that held the
\* event before and Added for the others.
C10_Witness ==
    /\ HasReturned("add_multiple")
    /\ ret.args[3] \in {<<>>, <<D_2024_01_01>>}
    /\ Len(ret.result) = 14
    /\ \E i, j \in 1..14 : /\ i < j
                           /\ ret.result[i].kind = "Added"
                           /\ ret.result[j].kind = "Duplicate"
    /\ \A n \in 1..14 : Contains(EventsOn(calendar_db, DateOf(ret.result[n])), ret.args[1])

-----------------------------------------------------------------------------
(* Queries and duplicates. *)

\* C11: For every valid date d, Query(d) has hasEvents true exactly when d's
\* list is not empty, and lists that list; a date that is no key and a date
\* that is a key with an empty list give the same result, with hasEvents false;
\* and a Query changes neither the calendar nor the file.
QueryTellsEvents ==
    \A s \in DOMAIN ValidDates :
        /\ show_events(calendar_db, s).is_event
              = (EventsOn(calendar_db, ValidDates[s]) # <<>>)
        /\ show_events(calendar_db, s).events = EventsOn(calendar_db, ValidDates[s])
        /\ ~Has(calendar_db, ValidDates[s]) =>
              /\ show_events(Append(calendar_db, <<ValidDates[s], <<>>>>), s)
                    = show_events(calendar_db, s)
              /\ ~show_events(Append(calendar_db, <<ValidDates[s], <<>>>>), s).is_event

QueryChangesNothing ==
    \A s \in DOMAIN ValidDates :
        (Calls("show_events") /\ ret'.args[1] = s) =>
            /\ ret'.raised = ""
            /\ ret'.result.is_event = (EventsOn(calendar_db, ValidDates[s]) # <<>>)
            /\ ret'.result.events = EventsOn(calendar_db, ValidDates[s])
            /\ calendar_db' = calendar_db
            /\ disk' = disk

C11_QueryIsExact == []QueryTellsEvents /\ [][QueryChangesNothing]_vars

\* A Query has listed the events of a date that holds some, while another of
\* the valid dates is no key.
C11_Witness ==
    /\ HasReturned("show_events")
    /\ ret.args[1] \in DOMAIN ValidDates
    /\ ret.result.is_event
    /\ ret.result.events = EventsOn(calendar_db, ValidDates[ret.args[1]])
    /\ \E s \in DOMAIN ValidDates : ~Has(calendar_db, ValidDates[s])

\* C12: An Add of a text the date already holds returns Duplicate and changes
\* nothing: the calendar (keys, their order, every list) is as before, and the
\* file is not written - it stays as it is even where it differs from the
\* calendar, and the call returns even where a write would fail.  The same
\* holds of a Duplicate that add_multiple collects.
DuplicateChangesNothing ==
    /\ \A s \in DOMAIN ValidDates :
          (Calls("add_event") /\ ret'.args[1] = s
              /\ Contains(EventsOn(calendar_db, ValidDates[s]), ret'.args[2])) =>
              /\ ret'.raised = ""
              /\ ret'.result.kind = "Duplicate"
    /\ (Calls("add_event") /\ ret'.raised = "" /\ ret'.result.kind = "Duplicate") =>
          /\ calendar_db' = calendar_db
          /\ disk' = disk
    /\ (pc = "loop" /\ calls'.n = calls.n + 1
          /\ Contains(EventsOn(calendar_db, current_date_obj), event)) =>
          /\ ret'.raised = ""
          /\ output'[Len(output')].kind = "Duplicate"
          /\ calendar_db' = calendar_db
          /\ disk' = disk

C12_DuplicateIsNoOp == [][DuplicateChangesNothing]_vars

\* An Add has returned Duplicate while the file system fails writes and the
\* file lacks what the calendar holds: a write would have shown.
C12_Witness ==
    /\ HasReturned("add_event")
    /\ ret.result.kind = "Duplicate"
    /\ fs # "ok"
    /\ ~DiskHolds(calendar_db)

-----------------------------------------------------------------------------
(* The bot. *)

\* The calendar and the file hold the same: no file and no date, or the file
\* of the calendar.
InSync ==
    \/ calendar_db = <<>> /\ disk.state = "absent"
    \/ DiskHolds(calendar_db)

\* A handler of the bot calls the calendar in this step.
BotCalls == nops' = nops + 1 /\ ~(bot.add = "idle" /\ bot'.add = "reply")

\* C13: A failed write of the file is passed on and halts the processing: no
\* call of the calendar starts after a call has raised, and whenever a call
\* starts, the calendar in memory is what the file holds.
FailureHalts ==
    BotCalls => /\ ret.raised = ""
                /\ InSync

C13_FailureHaltsProcessing == [][FailureHalts]_vars

\* C17: No date's list holds the empty text, whatever /add commands are sent.
C17_NoEmptyText ==
    \A i \in 1..Len(calendar_db) :
        \A j \in 1..Len(calendar_db[i][2]) : calendar_db[i][2][j] # <<>>

\* C18: The calls of the calendar do not overlap.  While add_multiple runs its
\* loop, the task of add has the thread; a Query starts only when no call
\* runs, and sees the calendar as a finished call left it; add_multiple starts
\* only when no call runs; and the calendar and the file change only in a step
\* of the one task that has the thread.
OneCallAtATime ==
    /\ pc = "loop" => bot.thread = "add" /\ bot.add = "running"
    /\ bot.thread = "none" => pc = "idle"

CallsRunToCompletion ==
    /\ (BotCalls /\ ret'.op = "show_events" /\ bot'.reminder # bot.reminder) =>
          /\ pc = "idle" /\ pc' = "idle"
          /\ bot.thread = "none"
          /\ UNCHANGED <<calendar_db, disk>>
    /\ (pc = "idle" /\ pc' = "loop") => bot.thread = "none" /\ bot'.thread = "add"
    /\ (calendar_db' # calendar_db \/ disk' # disk) =>
          bot.thread = "add" /\ pc = "loop"

C18_NoOverlap == []OneCallAtATime /\ [][CallsRunToCompletion]_vars

\* The daily reminder has asked the calendar, and awaits its send_message,
\* while add awaits its reply after add_multiple has added the topic.
C18_Witness ==
    /\ bot.add = "reply"
    /\ bot.reply = "result"
    /\ bot.remind = "send"
    /\ ~bot.reminder.manual
    /\ ret.op = "show_events"
    /\ bot.reminder.shown.events = <<W_a>>

\* The date a reminder is about: the date asked for if it is a valid date,
\* else the day the clock gives.
EffectiveDate(date, now) ==
    IF date # <<>> /\ date[1] \in DOMAIN ValidDates THEN ValidDates[date[1]] ELSE now

Reminds == BotCalls /\ ret'.op = "show_events"

Delivers == Len(bot'.sent) = Len(bot.sent) + 1

\* C19, as the code has it: a reminder is sent exactly when the calendar has
\* events for the date asked for, or, if none or a malformed one is asked for,
\* for the current date; what is delivered is the listing the Query returned
\* with hasEvents true.  A malformed date is not the same as a date without
\* events: it stands for today.
ReminderFollowsQuery ==
    /\ Reminds =>
          /\ bot'.reminder.shown.is_event
                = (EventsOn(calendar_db, EffectiveDate(bot'.reminder.requested, today')) # <<>>)
          /\ (bot'.remind = "send") = bot'.reminder.shown.is_event
          /\ bot'.sent = bot.sent
    /\ Delivers =>
          /\ bot.remind = "send"
          /\ bot.reminder.shown.is_event
          /\ bot'.sent = Append(bot.sent, bot.reminder.shown)
          /\ bot.reminder.shown.events # <<>>

C19_ReminderForEffectiveDate == [][ReminderFollowsQuery]_vars

\* A reminder has been delivered on a /remind with a malformed date: the
\* listing of the current date.
C19_Witness ==
    /\ bot.reminder.requested \in {<<D_slashes>>, <<D_2024_02_30>>}
    /\ bot.remind # "send"
    /\ Len(bot.sent) = 1
    /\ bot.sent[1] = bot.reminder.shown
    /\ bot.reminder.current_date = strftime(today)

\* C19: A reminder is sent only when the date asked for has events: for a
\* malformed date nothing is sent, as for a valid date without events, and
\* what is sent follows a Query of the date asked for with hasEvents true.
MalformedSendsNothing ==
    Reminds =>
        /\ (bot'.reminder.requested # <<>> /\ bot'.reminder.requested[1] \in Malformed)
              => bot'.remind # "send"
        /\ (bot'.remind = "send" /\ bot'.reminder.requested # <<>>)
              => bot'.reminder.current_date = bot'.reminder.requested[1]

C19_MalformedDateSendsNothing == [][MalformedSendsNothing]_vars

-----------------------------------------------------------------------------
(* Gaps, lists and reruns. *)

\* The whole part of (h/2)^n, the n-th power of a factor of h halves:
\* h^n \div 2^n, with h^n taken in two parts from the tenth power on so that
\* no product passes 2^31.
FloorPow(h, n) ==
    IF n <= 10
    THEN (h ^ n) \div (2 ^ n)
    ELSE (((h ^ (n - 10)) \div 1024) * (h ^ 10)
             + (((h ^ (n - 10)) % 1024) * (h ^ 10)) \div 1024)
         \div (2 ^ (n - 10))

\* C14: For a growth factor g >= 1 that is no whole number, the n-th step
\* (n = 0, 1, ...) moves the date on by floor(g^n) days: the gap it keeps is
\* g^n itself, a number with a fraction, which is cut to whole days only where
\* the date is moved on.
FractionalStep ==
    (pc = "loop" /\ calls'.n = calls.n + 1 /\ exponent_base \in {3, 5}) =>
        /\ gap.whole = FloorPow(exponent_base, calls.n)
        /\ calls.n > 0 => gap.exp = calls.n /\ gap.frac % 2 = 1
        /\ pc' = "loop" =>
              /\ current_date_obj' = current_date_obj + FloorPow(exponent_base, calls.n)
              /\ gap'.whole = FloorPow(exponent_base, calls.n + 1)
              /\ gap'.exp = calls.n + 1
              /\ gap'.frac % 2 = 1
        /\ calls.n > 0 => calls'.step = FloorPow(exponent_base, calls.n - 1)

C14_FloorOfRunningGap == [][FractionalStep]_vars

\* The schedule with factor 1.5 has returned after 22 steps, the last of them
\* floor(1.5^20) = 3325 days after the one before.
C14_Witness ==
    /\ HasReturned("add_multiple")
    /\ ret.args[2] = 3
    /\ calls.n = 22
    /\ calls.step = 3325

\* The date and the text of the add_event call of this step, if it makes one.
AddsTo(d, e) ==
    \/ Calls("add_event") /\ ret'.args[1] \in DOMAIN ValidDates
          /\ d = ValidDates[ret'.args[1]] /\ e = ret'.args[2]
    \/ pc = "loop" /\ calls'.n = calls.n + 1 /\ d = current_date_obj /\ e = event

\* add_event has returned Added in this step.
ReturnsAdded ==
    \/ Calls("add_event") /\ ret'.raised = "" /\ ret'.result.kind = "Added"
    \/ pc = "loop" /\ calls'.n = calls.n + 1 /\ ret'.raised = ""
          /\ output'[Len(output')].kind = "Added"

\* The dates the step could be about.
Dates == {calendar_db[i][1] : i \in 1..Len(calendar_db)}
            \cup {calendar_db'[i][1] : i \in 1..Len(calendar_db')}
            \cup {ValidDates[s] : s \in DOMAIN ValidDates}
            \cup {current_date_obj}

\* Every change of a list is an append at its end, a pruning of its date or a
\* reload of the file: the text of an add_event call that passes the duplicate
\* check is put last under its date, before the file is written, and is there
\* when the call returns Added or raises in the write; every other date keeps
\* its list through the re-sort of the keys; a reload of a file that holds
\* the calendar gives the same lists; show_events lists the events in the
\* order of the list.
ListsGrowAtTheEnd ==
    /\ \A d \in Dates :
          \A e \in Events :
              AddsTo(d, e) =>
                  /\ ReturnsAdded =>
                        /\ ~Contains(EventsOn(calendar_db, d), e)
                        /\ EventsOn(calendar_db', d) = Append(EventsOn(calendar_db, d), e)
                  /\ (ret'.raised = "" /\ ~ReturnsAdded) =>
                        EventsOn(calendar_db', d) = EventsOn(calendar_db, d)
                  /\ ret'.raised # "" =>
                        EventsOn(calendar_db', d) = Append(EventsOn(calendar_db, d), e)
                  /\ \A k \in Dates \ {d} :
                        EventsOn(calendar_db', k) = EventsOn(calendar_db, k)
    /\ Calls("cut_events_before_date") =>
          \A k \in Dates : EventsOn(calendar_db', k) \in {EventsOn(calendar_db, k), <<>>}
    /\ (pc = "idle" /\ ret'.op = "__init__" /\ DiskHolds(calendar_db)) =>
          calendar_db' = calendar_db
    /\ \A s \in DOMAIN ValidDates :
          (Calls("show_events") /\ ret'.args[1] = s) =>
              /\ ret'.result.events = EventsOn(calendar_db, ValidDates[s])
              /\ calendar_db' = calendar_db
    /\ ((\A d \in Dates : \A e \in Events : ~AddsTo(d, e))
           /\ ~Calls("cut_events_before_date") /\ ret'.op # "__init__") =>
          calendar_db' = calendar_db

AppendsOnly == [][ListsGrowAtTheEnd]_vars

\* C15: Within a date, the events are kept in the order in which their Added
\* outcomes occurred: a date's list is exactly the texts added to it with an
\* Added outcome since it was last pruned.  Step by step: the list of a date
\* changes only in a step in which add_event returns Added, which puts the
\* text last, or in a pruning step; a reload and every other step leave it
\* as it is.
ListIsTheAddedTexts ==
    /\ ListsGrowAtTheEnd
    /\ (~ReturnsAdded /\ ~Calls("cut_events_before_date")) =>
          \A k \in Dates : EventsOn(calendar_db', k) = EventsOn(calendar_db, k)

C15_ListIsTheAddedTexts == [][ListIsTheAddedTexts]_vars

\* Two schedules, of "b" and then of "a", have returned: each of the 14 dates
\* holds "b" before "a", in the calendar and in the file.
BothInOrder ==
    /\ HasReturned("add_multiple")
    /\ ret.args[1] = "a"
    /\ Len(calendar_db) = 14
    /\ \A i \in 1..14 : calendar_db[i][2] = <<"b", "a">>
    /\ DiskHolds(calendar_db)

\* C16: No date is a key of an empty list, in the calendar or in the file.
C16_NoEmptyList ==
    /\ \A i \in 1..Len(calendar_db) : calendar_db[i][2] # <<>>
    /\ \A i \in 1..Len(disk.items) : disk.items[i][2] # <<>>

\* An Add with a malformed date has returned, after a call that left a date in
\* the calendar and in the file.
C16_Witness ==
    /\ HasReturned("add_event")
    /\ ret.result.kind = "InvalidDate"
    /\ calendar_db # <<>>
    /\ DiskHolds(calendar_db)

\* The running add_multiple call repeats the call before it: the same event,
\* factor and start date, given as a string.
Reruns ==
    /\ pc = "loop"
    /\ prev.op = "add_multiple"
    /\ prev.args = ret.args
    /\ ret.args[3] # <<>>

\* C20: A second ScheduleExponential with the same event, factor and explicit
\* start date finds a Duplicate at every date and writes nothing: it returns
\* as many outcomes as the first, for the same dates, all Duplicate, and the
\* calendar and the file are as the first run left them.  With a malformed
\* start date the call makes no Add and changes nothing.
RerunIsNoOp ==
    /\ (Reruns /\ calls'.n = calls.n + 1) =>
          /\ ret'.raised = ""
          /\ output'[Len(output')].kind = "Duplicate"
          /\ UNCHANGED <<calendar_db, disk>>
    /\ (Reruns /\ pc' = "idle") =>
          /\ ret'.raised = ""
          /\ Len(ret'.result) = Len(prev.result)
          /\ \A n \in 1..Len(ret'.result) :
                /\ ret'.result[n].kind = "Duplicate"
                /\ ret'.result[n].date = prev.result[n].date
          /\ calendar_db' = prev.items
          /\ disk' = prev.disk
    /\ (nops' = nops + 1 /\ ret'.op = "add_multiple" /\ ret'.args[3] # <<>>
          /\ ret'.args[3][1] \in Malformed) =>
          /\ pc' = "idle"
          /\ ret'.raised = ""
          /\ ret'.result.kind = "InvalidStartDate"
          /\ UNCHANGED <<calendar_db, disk, calls>>

C20_RerunIsIdempotent == [][RerunIsNoOp]_vars

\* The schedule from 2024-01-01 has returned 14 Duplicates while the file
\* system would fail a write.
C20_Witness ==
    /\ HasReturned("add_multiple")
    /\ ret.args[3] = <<D_2024_01_01>>
    /\ Len(ret.result) = 14
    /\ \A n \in 1..14 : ret.result[n].kind = "Duplicate"
    /\ fs # "ok"
    /\ DiskHolds(calendar_db)

====
